---- MODULE Spec2Model ----
(***************************************************************************)
(* The request authentication and command-dispatch pipeline of             *)
(* src/worker.js: the fetch handler of the Cloudflare Worker, the command  *)
(* registry COMMAND_HANDLERS, the five command handlers and the response   *)
(* helpers jsonResponse and featureComingSoonResponse.                     *)
(*                                                                         *)
(* fetch is cut into the steps of its code (method check, header check,    *)
(* request.text(), verifyKey, JSON.parse, classification, routing,         *)
(* settling of the handler's promise); the variable log records the steps  *)
(* a request went through.  Under Spec one request is in flight at a time. *)
(* Under SpecConcurrent a second invocation of fetch is suspended in       *)
(* parked, and the two change places where fetch awaits.                   *)
(***************************************************************************)
EXTENDS Integers, Sequences, FiniteSets, TLC

VARIABLES
    pc,               \* position of fetch: idle, method, headers, text, verify,
                      \* parse, classify, route, await, done
    request,          \* the Request object given to fetch
    signature,        \* const signature   (worker.js:25)
    timestamp,        \* const timestamp   (worker.js:26)
    body,             \* const body        (worker.js:32)
    isValidRequest,   \* const isValidRequest (worker.js:35)
    interaction,      \* const interaction (worker.js:46)
    pending,          \* settlement of the promise returned by an async handler
    result,           \* how fetch ended: a Response, a thrown fault, a non-Response value
    log,              \* the steps taken for the request in flight, in order
    invoked,          \* the functions called as handler for the request in flight
    COMMAND_HANDLERS, \* the command registry (worker.js:8-14)
    parked,           \* the locals of a second invocation of fetch, suspended
    memo              \* a request served earlier and how fetch ended for it

vars == <<pc, request, signature, timestamp, body, isValidRequest, interaction,
          pending, result, log, invoked, COMMAND_HANDLERS, parked, memo>>

(***************************************************************************)
(* JavaScript values.  A value is a record tagged by t.                    *)
(***************************************************************************)
Undef == [t |-> "undef"]
NullV == [t |-> "null"]
BoolV(b) == [t |-> "bool", b |-> b]
NumV(n) == [t |-> "num", n |-> n]
StrV(s) == [t |-> "str", s |-> s]
ArrV(a) == [t |-> "arr", a |-> a]
\* an object: its own properties in insertion order, each [k |-> key, v |-> value]
ObjV(o) == [t |-> "obj", o |-> o]
\* a function value, named by the function it is
FnV(f) == [t |-> "fn", f |-> f]
Member(k, v) == [k |-> k, v |-> v]

\* ToBoolean, as applied by !x and if (x)
Truthy(v) ==
    CASE v.t = "undef" -> FALSE
      [] v.t = "null" -> FALSE
      [] v.t = "bool" -> v.b
      [] v.t = "num" -> v.n # 0
      [] v.t = "str" -> v.s # ""
      [] OTHER -> TRUE

\* reading a property of undefined or null throws a TypeError
Nullish(v) == v.t \in {"undef", "null"}

RECURSIVE LastMember(_, _, _)
LastMember(o, k, i) ==
    IF i = 0 THEN Undef
    ELSE IF o[i].k = k THEN o[i].v
    ELSE LastMember(o, k, i - 1)

\* v.k for a non-nullish v built by JSON.parse and k one of type, data, name,
\* options, value: an own property of an object (a repeated key keeps its last
\* value), undefined on every other value
Prop(v, k) == IF v.t = "obj" THEN LastMember(v.o, k, Len(v.o)) ELSE Undef

\* x === n for a number literal n
StrictEqNum(v, n) == v.t = "num" /\ v.n = n
\* x === s for a string literal s
StrictEqStr(v, s) == v.t = "str" /\ v.s = s

RECURSIVE JSToString(_), JoinElements(_, _)
\* ToString, as applied by a template literal and by a computed property key
JSToString(v) ==
    CASE v.t = "undef" -> "undefined"
      [] v.t = "null" -> "null"
      [] v.t = "bool" -> IF v.b THEN "true" ELSE "false"
      [] v.t = "num" -> ToString(v.n)
      [] v.t = "str" -> v.s
      [] v.t = "arr" -> JoinElements(v.a, 1)
      [] OTHER -> "[object Object]"
\* Array.prototype.join: undefined and null elements give the empty string
JoinElements(a, i) ==
    IF i > Len(a) THEN ""
    ELSE (IF Nullish(a[i]) THEN "" ELSE JSToString(a[i]))
         \o (IF i < Len(a) THEN "," ELSE "")
         \o JoinElements(a, i + 1)

(***************************************************************************)
(* JSON text.  A text is a sequence of lexemes: punctuation, string and    *)
(* number literals, the literals true, false and null, white space, and    *)
(* characters that belong to no JSON lexeme.                               *)
(***************************************************************************)
P(s) == [k |-> "p", s |-> s, n |-> 0]
S(s) == [k |-> "str", s |-> s, n |-> 0]
N(n) == [k |-> "num", s |-> "", n |-> n]
L(s) == [k |-> "lit", s |-> s, n |-> 0]
WS == [k |-> "ws", s |-> " ", n |-> 0]
Chars(s) == [k |-> "chars", s |-> s, n |-> 0]

\* the characters of one lexeme (the strings used need no escaping)
Lexeme(tok) ==
    CASE tok.k = "str" -> "\"" \o tok.s \o "\""
      [] tok.k = "num" -> ToString(tok.n)
      [] OTHER -> tok.s

RECURSIVE Text(_)
\* the characters of a text
Text(toks) == IF toks = <<>> THEN "" ELSE Lexeme(Head(toks)) \o Text(Tail(toks))

RECURSIVE SkipWs(_)
SkipWs(toks) ==
    IF toks # <<>> /\ Head(toks).k = "ws" THEN SkipWs(Tail(toks)) ELSE toks

IsP(toks, s) == toks # <<>> /\ Head(toks).k = "p" /\ Head(toks).s = s

ParseFail == [ok |-> FALSE, v |-> Undef, rest |-> <<>>]
ParseOk(v, rest) == [ok |-> TRUE, v |-> v, rest |-> rest]

RECURSIVE ParseValue(_), ParseElements(_, _), ParseMembers(_, _)
\* one JSON value at the head of toks
ParseValue(toks0) ==
    LET toks == SkipWs(toks0) IN
    IF toks = <<>> THEN ParseFail
    ELSE LET h == Head(toks)
             r == SkipWs(Tail(toks))
         IN CASE h.k = "str" -> ParseOk(StrV(h.s), Tail(toks))
              [] h.k = "num" -> ParseOk(NumV(h.n), Tail(toks))
              [] h.k = "lit" ->
                    ParseOk(IF h.s = "null" THEN NullV ELSE BoolV(h.s = "true"),
                            Tail(toks))
              [] h.k = "p" /\ h.s = "[" ->
                    IF IsP(r, "]") THEN ParseOk(ArrV(<<>>), Tail(r))
                    ELSE ParseElements(r, <<>>)
              [] h.k = "p" /\ h.s = "{" ->
                    IF IsP(r, "}") THEN ParseOk(ObjV(<<>>), Tail(r))
                    ELSE ParseMembers(r, <<>>)
              [] OTHER -> ParseFail
\* the elements of an array after "[", up to and including "]"
ParseElements(toks, acc) ==
    LET e == ParseValue(toks) IN
    IF ~e.ok THEN ParseFail
    ELSE LET r == SkipWs(e.rest) IN
         IF IsP(r, ",") THEN ParseElements(Tail(r), Append(acc, e.v))
         ELSE IF IsP(r, "]") THEN ParseOk(ArrV(Append(acc, e.v)), Tail(r))
         ELSE ParseFail
\* the members of an object after "{", up to and including "}"
ParseMembers(toks0, acc) ==
    LET toks == SkipWs(toks0) IN
    IF toks = <<>> \/ Head(toks).k # "str" THEN ParseFail
    ELSE LET c == SkipWs(Tail(toks)) IN
         IF ~IsP(c, ":") THEN ParseFail
         ELSE LET e == ParseValue(Tail(c)) IN
              IF ~e.ok THEN ParseFail
              ELSE LET r == SkipWs(e.rest)
                       m == Append(acc, Member(Head(toks).s, e.v))
                   IN IF IsP(r, ",") THEN ParseMembers(Tail(r), m)
                      ELSE IF IsP(r, "}") THEN ParseOk(ObjV(m), Tail(r))
                      ELSE ParseFail

\* JSON.parse(text): the value, or ok = FALSE where it throws a SyntaxError
JSONparse(text) ==
    LET r == ParseValue(text) IN
    IF r.ok /\ SkipWs(r.rest) = <<>> THEN r ELSE ParseFail

RECURSIVE Stringify(_), StringifyElements(_, _), StringifyMembers(_, _, _)
\* JSON.stringify(v) for v built from numbers, strings, arrays and objects
Stringify(v) ==
    CASE v.t = "num" -> <<N(v.n)>>
      [] v.t = "str" -> <<S(v.s)>>
      [] v.t = "bool" -> <<L(IF v.b THEN "true" ELSE "false")>>
      [] v.t = "arr" -> <<P("[")>> \o StringifyElements(v.a, 1) \o <<P("]")>>
      [] v.t = "obj" -> <<P("{")>> \o StringifyMembers(v.o, 1, TRUE) \o <<P("}")>>
      [] OTHER -> <<L("null")>>
StringifyElements(a, i) ==
    IF i > Len(a) THEN <<>>
    ELSE Stringify(a[i])
         \o (IF i < Len(a) THEN <<P(",")>> ELSE <<>>)
         \o StringifyElements(a, i + 1)
\* members whose value is undefined are left out
StringifyMembers(o, i, first) ==
    IF i > Len(o) THEN <<>>
    ELSE IF o[i].v.t = "undef" THEN StringifyMembers(o, i + 1, first)
    ELSE (IF first THEN <<>> ELSE <<P(",")>>)
         \o <<S(o[i].k), P(":")>> \o Stringify(o[i].v)
         \o StringifyMembers(o, i + 1, FALSE)

(***************************************************************************)
(* How fetch can end.                                                      *)
(***************************************************************************)
NoResult == [kind |-> "none", status |-> 0, contentType |-> "", body |-> <<>>, error |-> ""]
\* new Response(body, {status, headers: {'Content-Type': contentType}});
\* the body is a text
Response(text, status, contentType) ==
    [kind |-> "response", status |-> status, contentType |-> contentType,
     body |-> text, error |-> ""]
\* a thrown fault: fetch's promise rejects with it
Thrown(err) == [kind |-> "throw", status |-> 0, contentType |-> "", body |-> <<>>, error |-> err]
\* a value that is no Response: fetch's promise resolves to it
NonResponse(what) ==
    [kind |-> "value", status |-> 0, contentType |-> "", body |-> <<Chars(what)>>, error |-> ""]

\* the Content-Type a Response built from a string gets when none is given
TextPlain == "text/plain;charset=UTF-8"

(***************************************************************************)
(* Signatures.  A signature is made with a secret key over a message and   *)
(* verifies against the matching public key and that message only; a       *)
(* string that is no signature verifies against nothing.                   *)
(***************************************************************************)
SecretKeys == {"discord", "stranger"}
PublicKeyOf(sk) == "pub:" \o sk
Sign(sk, msg) == "sig:" \o sk \o ":" \o msg
Ed25519Verify(msg, sig, pk) ==
    \E sk \in SecretKeys : pk = PublicKeyOf(sk) /\ sig = Sign(sk, msg)

\* verifyKey(rawBody, signature, timestamp, clientPublicKey) of
\* discord-interactions: the signed message is the timestamp followed by the
\* raw body; every failure, a signature or timestamp that is no string
\* included, is the verdict false
verifyKey(rawBody, sig, ts, clientPublicKey) ==
    /\ sig.t = "str"
    /\ ts.t = "str"
    /\ Ed25519Verify(ts.s \o Text(rawBody), sig.s, clientPublicKey)

\* the env binding of the worker
env == [DISCORD_PUBLIC_KEY |-> PublicKeyOf("discord")]

(***************************************************************************)
(* Response helpers and command handlers.                                  *)
(***************************************************************************)
Ephemeral == 64
EmbedColor == 12500734

\* jsonResponse(data, status = 200)
jsonResponse(data) == Response(Stringify(data), 200, "application/json")

\* { type: 4, data: { content, flags: 64 } }
EphemeralMessage(content) ==
    ObjV(<<Member("type", NumV(4)),
           Member("data", ObjV(<<Member("content", StrV(content)),
                                 Member("flags", NumV(Ephemeral))>>))>>)

\* the description quotes the command name in backticks in the source, written
\* as apostrophes here
featureComingSoonResponse(commandName) ==
    jsonResponse(ObjV(<<
        Member("type", NumV(4)),
        Member("data", ObjV(<<
            Member("embeds", ArrV(<<ObjV(<<
                Member("title", StrV("Feature in Development")),
                Member("description",
                       StrV("The '" \o commandName \o "' command is available in the traditional bot deployment. Full Cloudflare Workers implementation coming soon!")),
                Member("color", NumV(EmbedColor)),
                Member("footer", ObjV(<<Member("text",
                       StrV("Use the traditional bot (bot.py) for full functionality"))>>))>>)>>)),
            Member("flags", NumV(Ephemeral))>>))>>))

\* the title's first character is U+1F3D3 in the source
handlePingCommand(i, e) ==
    jsonResponse(ObjV(<<
        Member("type", NumV(4)),
        Member("data", ObjV(<<
            Member("embeds", ArrV(<<ObjV(<<
                Member("title", StrV("U+1F3D3 Pong!")),
                Member("description", StrV("Bot is running on Cloudflare Workers!")),
                Member("color", NumV(EmbedColor))>>)>>))>>))>>))

RECURSIVE FindAuthKey_last(_, _)
\* the last element named auth_key found in place of the first
FindAuthKey_last(a, i) ==
    IF i > Len(a) THEN [ok |-> TRUE, v |-> Undef]
    ELSE IF Nullish(a[i]) THEN [ok |-> FALSE, v |-> Undef]
    ELSE LET rest == FindAuthKey_last(a, i + 1) IN
         IF ~rest.ok \/ ~Nullish(rest.v) THEN rest
         ELSE IF StrictEqStr(Prop(a[i], "name"), "auth_key") THEN [ok |-> TRUE, v |-> a[i]]
         ELSE rest

RECURSIVE FindAuthKey(_, _)
\* options.find(opt => opt.name === 'auth_key') from index i on: the first
\* element found, undefined when there is none, a TypeError when the callback
\* reads .name of a null element on the way
FindAuthKey(a, i) ==
    IF i > Len(a) THEN [ok |-> TRUE, v |-> Undef]
    ELSE IF Nullish(a[i]) THEN [ok |-> FALSE, v |-> Undef]
    ELSE IF StrictEqStr(Prop(a[i], "name"), "auth_key") THEN [ok |-> TRUE, v |-> a[i]]
    ELSE FindAuthKey(a, i + 1)

\* interaction.data.options?.find(opt => opt.name === 'auth_key')?.value
\* only an array has a find method: on any other value that is not null or
\* undefined, calling options.find throws a TypeError
AuthKeyOf(i) ==
    LET options == Prop(Prop(i, "data"), "options") IN
    IF Nullish(options) THEN [ok |-> TRUE, v |-> Undef]
    ELSE IF options.t # "arr" THEN [ok |-> FALSE, v |-> Undef]
    ELSE LET f == FindAuthKey(options.a, 1) IN
         IF ~f.ok THEN f
         ELSE IF Nullish(f.v) THEN [ok |-> TRUE, v |-> Undef]
         ELSE [ok |-> TRUE, v |-> Prop(f.v, "value")]

\* the auth key never asked for
handleLoginCommand_noValidation(i, e) == featureComingSoonResponse("login")

handleLoginCommand(i, e) ==
    LET authKey == AuthKeyOf(i) IN
    IF ~authKey.ok THEN Thrown("TypeError")
    ELSE IF ~Truthy(authKey.v) THEN jsonResponse(EphemeralMessage("Auth key is required"))
    ELSE featureComingSoonResponse("login")

handleStartShiftCommand(i, e) == featureComingSoonResponse("start-shift")
\* the placeholder of another command, as a copied line gives it
handleEndShiftCommand_copied(i, e) == featureComingSoonResponse("start-shift")
handleEndShiftCommand(i, e) == featureComingSoonResponse("end-shift")
handleShiftStatusCommand(i, e) == featureComingSoonResponse("shift-status")

\* the registry as written at startup
InitialHandlers ==
    [n \in {"ping", "login", "start-shift", "end-shift", "shift-status"} |->
        CASE n = "ping" -> FnV("handlePingCommand")
          [] n = "login" -> FnV("handleLoginCommand")
          [] n = "start-shift" -> FnV("handleStartShiftCommand")
          [] n = "end-shift" -> FnV("handleEndShiftCommand")
          [] n = "shift-status" -> FnV("handleShiftStatusCommand")]

\* the handlers declared async
\* every handler taken for a synchronous function
AsyncHandlers_none == {}

AsyncHandlers == {"handleLoginCommand", "handleStartShiftCommand",
                  "handleEndShiftCommand", "handleShiftStatusCommand"}

\* what an object literal inherits from Object.prototype under key k
ObjectPrototype(k) ==
    CASE k = "constructor" -> FnV("Object")
      [] k \in {"toString", "toLocaleString", "valueOf", "hasOwnProperty",
                "isPrototypeOf", "propertyIsEnumerable"} ->
            FnV("Object.prototype." \o k)
      [] k = "__proto__" -> ObjV(<<>>)
      [] OTHER -> Undef

\* COMMAND_HANDLERS[commandName]: the key is the name converted to a string;
\* an own property first, an inherited one otherwise
Lookup(registry, commandName) ==
    LET k == JSToString(commandName) IN
    IF k \in DOMAIN registry THEN registry[k] ELSE ObjectPrototype(k)

\* handler(interaction, env) for a function value, called with this undefined
\* (the file is an ES module)
Invoke(handler, i, e) ==
    CASE handler.f = "handlePingCommand" -> handlePingCommand(i, e)
      [] handler.f = "handleLoginCommand" -> handleLoginCommand(i, e)
      [] handler.f = "handleStartShiftCommand" -> handleStartShiftCommand(i, e)
      [] handler.f = "handleEndShiftCommand" -> handleEndShiftCommand(i, e)
      [] handler.f = "handleShiftStatusCommand" -> handleShiftStatusCommand(i, e)
      [] handler.f = "Object" -> NonResponse("the interaction object")
      [] handler.f = "Object.prototype.toString" -> NonResponse("[object Undefined]")
      [] OTHER -> Thrown("TypeError")

(***************************************************************************)
(* The requests the worker is given.                                       *)
(***************************************************************************)
HeaderSignature == "X-Signature-Ed25519"
HeaderTimestamp == "X-Signature-Timestamp"

\* request.headers.get(name): null when the header is absent
HeadersGet(headers, name) ==
    IF name \in DOMAIN headers THEN StrV(headers[name]) ELSE NullV

\* longest options list of a generated body
MaxOptions == 2

Option(name, value) == ObjV(<<Member("name", StrV(name)), Member("value", value)>>)

OptionEntries ==
    {Option("auth_key", StrV("abc123")), Option("auth_key", StrV("")),
     Option("auth_key", NumV(0)), Option("auth_key", BoolV(FALSE)),
     Option("auth_key", NullV), Option("remember", BoolV(TRUE)), NullV}

\* options values that are no list, and the shortest lists
FewOptions ==
    {Undef, NullV, NumV(5), StrV("auth_key"), ObjV(<<>>), ArrV(<<>>),
     ArrV(<<Option("auth_key", StrV("abc123"))>>)}

OptionsChoices ==
    FewOptions
    \cup {ArrV(l) : l \in UNION {[1..n -> OptionEntries] : n \in 0..MaxOptions}}

RegisteredNames == {"ping", "login", "start-shift", "end-shift", "shift-status"}

NameChoices ==
    {StrV(n) : n \in RegisteredNames}
    \cup {StrV(n) : n \in {"Ping", "login ", "start", "unknown", "",
                           "constructor", "toString", "hasOwnProperty", "__proto__"}}
    \cup {Undef, NumV(5), ArrV(<<StrV("ping")>>)}

DataChoices ==
    {Undef, NullV, NumV(5), ObjV(<<>>)}
    \cup {ObjV(<<Member("name", nm)>>) : nm \in NameChoices}
    \cup {ObjV(<<Member("name", StrV(nm)), Member("options", o)>>) :
              nm \in {"login", "ping"}, o \in FewOptions}

\* the data of a login command with each of the options values
LoginData ==
    {ObjV(<<Member("name", StrV("login")), Member("options", o)>>) :
         o \in OptionsChoices}

TypeChoices == {Undef, NullV, NumV(0), NumV(1), NumV(2), NumV(3), StrV("2")}

\* bodies as the platform serialises them
CompactBodies ==
    {Stringify(ObjV(<<Member("type", ty), Member("data", d)>>)) :
         ty \in TypeChoices, d \in DataChoices}
    \cup {Stringify(ObjV(<<Member("type", NumV(2)), Member("data", d)>>)) :
              d \in LoginData}

\* bodies that are no JSON object, JSON with white space or a repeated key,
\* and texts that are no JSON
OtherBodies ==
    {<<L("null")>>, <<N(1)>>, <<S("ping")>>, <<P("["), P("]")>>, <<L("true")>>,
     <<P("{"), WS, S("type"), P(":"), WS, N(1), WS, P("}")>>,
     <<P("{"), S("type"), P(":"), N(2), P(","), S("type"), P(":"), N(1), P("}")>>,
     <<P("{"), S("type"), P(":"), N(1), P(","), S("type"), P(":"), N(2), P(","),
       S("data"), P(":"), P("{"), S("name"), P(":"), S("ping"), P("}"), P("}")>>,
     <<P("{"), S("type"), P(":"), N(2), P(","), WS, S("data"), P(":"), WS, P("{"),
       S("name"), P(":"), WS, S("ping"), P("}"), P("}")>>,
     <<>>, <<Chars("not json")>>, <<P("{"), S("type"), P(":")>>,
     <<P("{"), S("type"), P(":"), N(1), P(","), P("}")>>,
     <<P("{"), S("type"), P(":"), N(1), P("}"), Chars("x")>>,
     <<P("{"), S("type"), P(":"), N(2), P(","), S("data"), P(":"), P("{"),
       S("name"), P(":"), S("login"), P("}")>>}

Bodies == CompactBodies \cup OtherBodies

Timestamps == {"1700000000"}

\* the body a signature made for another request was made over
PingBody == <<P("{"), S("type"), P(":"), N(1), P("}")>>

\* the signature header values tried with body b: empty, no signature at all,
\* the platform's signature over b, a stranger's signature over b, the
\* platform's signature over another body
SignatureChoices(b) ==
    {"", "zz"}
    \cup {Sign(sk, ts \o Text(b)) : sk \in SecretKeys, ts \in Timestamps}
    \cup {Sign("discord", ts \o Text(PingBody)) : ts \in Timestamps}

Absent == "<absent>"

Headers(sig, ts) ==
    [n \in {h \in {HeaderSignature, HeaderTimestamp} :
               (IF h = HeaderSignature THEN sig ELSE ts) # Absent} |->
        IF n = HeaderSignature THEN sig ELSE ts]

Methods == {"POST", "GET"}

TimestampChoices == Timestamps \cup {""}

NoRequest == [method |-> "", headers |-> Headers(Absent, Absent), body |-> <<>>]

(***************************************************************************)
(* fetch(request, env), step by step.                                      *)
(***************************************************************************)
\* the locals of an invocation of fetch that has not started
NoInvocation ==
    [pc |-> "idle", request |-> NoRequest, signature |-> Undef, timestamp |-> Undef,
     body |-> <<>>, isValidRequest |-> FALSE, interaction |-> Undef,
     pending |-> NoResult, result |-> NoResult, log |-> <<>>, invoked |-> <<>>]

NoMemo == [request |-> NoRequest, result |-> NoResult]

Init ==
    /\ pc = "idle"
    /\ request = NoRequest
    /\ signature = Undef
    /\ timestamp = Undef
    /\ body = <<>>
    /\ isValidRequest = FALSE
    /\ interaction = Undef
    /\ pending = NoResult
    /\ result = NoResult
    /\ log = <<>>
    /\ invoked = <<>>
    /\ COMMAND_HANDLERS = InitialHandlers
    /\ parked = NoInvocation
    /\ memo = NoMemo

\* fetch returns r
Return(r) == result' = r /\ pc' = "done"

\* the runtime calls fetch with a request
Receive ==
    /\ pc = "idle"
    /\ \E b \in Bodies, m \in Methods, ts \in TimestampChoices \cup {Absent} :
          \E sig \in SignatureChoices(b) \cup {Absent} :
             request' = [method |-> m, headers |-> Headers(sig, ts), body |-> b]
    /\ pc' = "method"
    /\ UNCHANGED <<signature, timestamp, body, isValidRequest, interaction,
                   pending, result, log, invoked, COMMAND_HANDLERS, parked, memo>>

\* a deny-list in place of the test for POST
NotPost_denyList(r) == r.method \in {"PUT", "DELETE"}

\* request.method !== 'POST'
NotPost(r) == r.method # "POST"

\* lines 21-23
CheckMethod ==
    /\ pc = "method"
    /\ log' = Append(log, "method")
    /\ IF NotPost(request)
       THEN Return(Response(<<Chars("Method not allowed")>>, 405, TextPlain))
       ELSE pc' = "headers" /\ UNCHANGED result
    /\ UNCHANGED <<request, signature, timestamp, body, isValidRequest,
                   interaction, pending, invoked, COMMAND_HANDLERS, parked, memo>>

\* the timestamp left out of the test
MissingHeaders_signatureOnly(sig, ts) == ~Truthy(sig)

\* only an absent header taken for missing, an empty one let through
MissingHeaders_absentOnly(sig, ts) == sig.t = "null" \/ ts.t = "null"

\* !signature || !timestamp
MissingHeaders(sig, ts) == ~Truthy(sig) \/ ~Truthy(ts)

\* lines 25-30
CheckHeaders ==
    /\ pc = "headers"
    /\ log' = Append(log, "headers")
    /\ signature' = HeadersGet(request.headers, HeaderSignature)
    /\ timestamp' = HeadersGet(request.headers, HeaderTimestamp)
    /\ IF MissingHeaders(signature', timestamp')
       THEN Return(Response(<<Chars("Missing signature headers")>>, 401, TextPlain))
       ELSE pc' = "text" /\ UNCHANGED result
    /\ UNCHANGED <<request, body, isValidRequest, interaction, pending,
                   invoked, COMMAND_HANDLERS, parked, memo>>

\* the body parsed and written out again before it is verified
ReadText_reserialised ==
    /\ pc = "text"
    /\ log' = Append(log, "text")
    /\ body' = IF JSONparse(request.body).ok
               THEN Stringify(JSONparse(request.body).v)
               ELSE request.body
    /\ pc' = "verify"
    /\ UNCHANGED <<request, signature, timestamp, isValidRequest, interaction,
                   pending, result, invoked, COMMAND_HANDLERS, parked, memo>>

\* line 32: await request.text()
ReadText ==
    /\ pc = "text"
    /\ log' = Append(log, "text")
    /\ body' = request.body
    /\ pc' = "verify"
    /\ UNCHANGED <<request, signature, timestamp, isValidRequest, interaction,
                   pending, result, invoked, COMMAND_HANDLERS, parked, memo>>

\* the verdict computed and not acted on
Verify_verdictIgnored ==
    /\ pc = "verify"
    /\ log' = Append(log, "verifyKey")
    /\ isValidRequest' = verifyKey(body, signature, timestamp, env.DISCORD_PUBLIC_KEY)
    /\ pc' = "parse"
    /\ UNCHANGED <<request, signature, timestamp, body, interaction, pending,
                   result, invoked, COMMAND_HANDLERS, parked, memo>>

\* lines 35-44
Verify ==
    /\ pc = "verify"
    /\ log' = Append(log, "verifyKey")
    /\ isValidRequest' = verifyKey(body, signature, timestamp, env.DISCORD_PUBLIC_KEY)
    /\ IF ~isValidRequest'
       THEN Return(Response(<<Chars("Invalid signature")>>, 401, TextPlain))
       ELSE pc' = "parse" /\ UNCHANGED result
    /\ UNCHANGED <<request, signature, timestamp, body, interaction, pending,
                   invoked, COMMAND_HANDLERS, parked, memo>>

\* line 46: JSON.parse(body); its SyntaxError is caught nowhere
Parse ==
    /\ pc = "parse"
    /\ log' = Append(log, "JSON.parse")
    /\ LET r == JSONparse(body) IN
       IF r.ok
       THEN interaction' = r.v /\ pc' = "classify" /\ UNCHANGED result
       ELSE Return(Thrown("SyntaxError")) /\ UNCHANGED interaction
    /\ UNCHANGED <<request, signature, timestamp, body, isValidRequest, pending,
                   invoked, COMMAND_HANDLERS, parked, memo>>

\* the discriminator of a ping taken to be 0
IsPing_zero(i) == StrictEqNum(Prop(i, "type"), 0)

\* interaction.type === 1
IsPing(i) == StrictEqNum(Prop(i, "type"), 1)
\* interaction.type === 2
IsApplicationCommand(i) == StrictEqNum(Prop(i, "type"), 2)

\* lines 49-54 and 71-77: reading .type of null throws a TypeError
Classify ==
    /\ pc = "classify"
    /\ log' = Append(log, "classify")
    /\ IF Nullish(interaction) THEN Return(Thrown("TypeError"))
       ELSE IF IsPing(interaction)
       THEN Return(jsonResponse(ObjV(<<Member("type", NumV(1))>>)))
       ELSE IF IsApplicationCommand(interaction)
       THEN pc' = "route" /\ UNCHANGED result
       ELSE Return(jsonResponse(EphemeralMessage("Unsupported interaction type")))
    /\ UNCHANGED <<request, signature, timestamp, body, isValidRequest,
                   interaction, pending, invoked, COMMAND_HANDLERS, parked, memo>>

\* the entry of a handler taken out of the registry when it is invoked
Route_consumesHandler ==
    /\ pc = "route"
    /\ log' = Append(log, "route")
    /\ LET data == Prop(interaction, "data") IN
       IF Nullish(data)
       THEN Return(Thrown("TypeError")) /\ UNCHANGED <<pending, invoked, COMMAND_HANDLERS>>
       ELSE LET commandName == Prop(data, "name")
                handler == Lookup(COMMAND_HANDLERS, commandName)
            IN IF ~Truthy(handler)
               THEN /\ Return(jsonResponse(EphemeralMessage(
                                 "Unknown command: " \o JSToString(commandName))))
                    /\ UNCHANGED <<pending, invoked, COMMAND_HANDLERS>>
               ELSE IF handler.t # "fn"
               THEN /\ Return(Thrown("TypeError"))
                    /\ UNCHANGED <<pending, invoked, COMMAND_HANDLERS>>
               ELSE /\ invoked' = Append(invoked, handler.f)
                    /\ COMMAND_HANDLERS' =
                          [n \in DOMAIN COMMAND_HANDLERS \ {JSToString(commandName)} |->
                              COMMAND_HANDLERS[n]]
                    /\ IF handler.f \in AsyncHandlers
                       THEN /\ pending' = Invoke(handler, interaction, env)
                            /\ pc' = "await"
                            /\ UNCHANGED result
                       ELSE /\ Return(Invoke(handler, interaction, env))
                            /\ UNCHANGED pending
    /\ UNCHANGED <<request, signature, timestamp, body, isValidRequest,
                   interaction, parked, memo>>

\* lines 55-68: reading .name of an undefined or null data throws a TypeError,
\* and so does calling a handler that is no function; neither a fault of the
\* call nor a rejection of the promise it returns is caught
Route ==
    /\ pc = "route"
    /\ log' = Append(log, "route")
    /\ LET data == Prop(interaction, "data") IN
       IF Nullish(data)
       THEN Return(Thrown("TypeError")) /\ UNCHANGED <<pending, invoked>>
       ELSE LET commandName == Prop(data, "name")
                handler == Lookup(COMMAND_HANDLERS, commandName)
            IN IF ~Truthy(handler)
               THEN /\ Return(jsonResponse(EphemeralMessage(
                                 "Unknown command: " \o JSToString(commandName))))
                    /\ UNCHANGED <<pending, invoked>>
               ELSE IF handler.t # "fn"
               THEN Return(Thrown("TypeError")) /\ UNCHANGED <<pending, invoked>>
               ELSE /\ invoked' = Append(invoked, handler.f)
                    /\ IF handler.f \in AsyncHandlers
                       THEN /\ pending' = Invoke(handler, interaction, env)
                            /\ pc' = "await"
                            /\ UNCHANGED result
                       ELSE /\ Return(Invoke(handler, interaction, env))
                            /\ UNCHANGED pending
    /\ UNCHANGED <<request, signature, timestamp, body, isValidRequest,
                   interaction, COMMAND_HANDLERS, parked, memo>>

\* line 59: the promise fetch returned settles as the handler's promise did
Settle ==
    /\ pc = "await"
    /\ log' = Append(log, "settle")
    /\ Return(pending)
    /\ UNCHANGED <<request, signature, timestamp, body, isValidRequest,
                   interaction, pending, invoked, COMMAND_HANDLERS, parked, memo>>

\* the runtime takes what fetch ended with; the worker keeps nothing of the request
Respond ==
    /\ pc = "done"
    /\ pc' = "idle"
    /\ request' = NoRequest
    /\ signature' = Undef
    /\ timestamp' = Undef
    /\ body' = <<>>
    /\ isValidRequest' = FALSE
    /\ interaction' = Undef
    /\ pending' = NoResult
    /\ result' = NoResult
    /\ log' = <<>>
    /\ invoked' = <<>>
    /\ UNCHANGED <<COMMAND_HANDLERS, parked, memo>>

Next ==
    \/ Receive
    \/ CheckMethod
    \/ CheckHeaders
    \/ ReadText
    \/ Verify
    \/ Parse
    \/ Classify
    \/ Route
    \/ Settle
    \/ Respond

Spec == Init /\ [][Next]_vars

(***************************************************************************)
(* Two invocations of fetch at a time, and replayed requests.              *)
(***************************************************************************)
ReplayBodies ==
    {PingBody,
     Stringify(ObjV(<<Member("type", NumV(2)),
                      Member("data", ObjV(<<Member("name", StrV("ping"))>>))>>)),
     Stringify(ObjV(<<Member("type", NumV(2)),
                      Member("data", ObjV(<<Member("name", StrV("login")),
                                            Member("options", ArrV(<<>>))>>))>>)),
     Stringify(ObjV(<<Member("type", NumV(2)),
                      Member("data", ObjV(<<Member("name", StrV("login")),
                                            Member("options", ArrV(<<
                                                Option("auth_key", StrV("abc123"))>>))>>))>>)),
     Stringify(ObjV(<<Member("type", NumV(2)),
                      Member("data", ObjV(<<Member("name", StrV("shift-status"))>>))>>)),
     Stringify(ObjV(<<Member("type", NumV(2)),
                      Member("data", ObjV(<<Member("name", StrV("unknown"))>>))>>)),
     Stringify(ObjV(<<Member("type", NumV(3))>>)),
     <<Chars("not json")>>}

\* the runtime calls fetch with a request that may come again
ReceiveReplay ==
    /\ pc = "idle"
    /\ \E b \in ReplayBodies, ts \in Timestamps :
          \E m \in Methods, sk \in SecretKeys :
             /\ m = "GET" \/ sk = "stranger" => b = PingBody
             /\ request' = [method |-> m,
                            headers |-> Headers(Sign(sk, ts \o Text(b)), ts),
                            body |-> b]
    /\ pc' = "method"
    /\ UNCHANGED <<signature, timestamp, body, isValidRequest, interaction,
                   pending, result, log, invoked, COMMAND_HANDLERS, parked, memo>>

\* where an invocation of fetch can be suspended: before it is called, in
\* await request.text() (line 32), in the promise of an async handler
\* (line 59), and when it has ended
SwitchPoints == {"idle", "text", "await", "done"}

\* the locals of the running invocation
Running ==
    [pc |-> pc, request |-> request, signature |-> signature,
     timestamp |-> timestamp, body |-> body, isValidRequest |-> isValidRequest,
     interaction |-> interaction, pending |-> pending, result |-> result,
     log |-> log, invoked |-> invoked]

\* the running invocation is suspended and the other one resumes; the
\* locals of each stay its own
Switch ==
    /\ pc \in SwitchPoints
    /\ parked' = Running
    /\ pc' = parked.pc
    /\ request' = parked.request
    /\ signature' = parked.signature
    /\ timestamp' = parked.timestamp
    /\ body' = parked.body
    /\ isValidRequest' = parked.isValidRequest
    /\ interaction' = parked.interaction
    /\ pending' = parked.pending
    /\ result' = parked.result
    /\ log' = parked.log
    /\ invoked' = parked.invoked
    /\ UNCHANGED <<COMMAND_HANDLERS, memo>>

\* an observer keeps a request and how fetch ended for it
Remember ==
    /\ pc = "done"
    /\ memo = NoMemo
    /\ memo' = [request |-> request, result |-> result]
    /\ UNCHANGED <<pc, request, signature, timestamp, body, isValidRequest,
                   interaction, pending, result, log, invoked, COMMAND_HANDLERS,
                   parked>>

NextConcurrent ==
    \/ ReceiveReplay
    \/ CheckMethod
    \/ CheckHeaders
    \/ ReadText
    \/ Verify
    \/ Parse
    \/ Classify
    \/ Route
    \/ Settle
    \/ Respond
    \/ Switch
    \/ Remember

SpecConcurrent == Init /\ [][NextConcurrent]_vars

(***************************************************************************)
(* Properties.                                                             *)
(***************************************************************************)
\* step e was taken for the request in flight
Seen(e) == \E n \in 1..Len(log) : log[n] = e

SignatureHeader == HeadersGet(request.headers, HeaderSignature)
TimestampHeader == HeadersGet(request.headers, HeaderTimestamp)

\* the request's signature verifies over its body and timestamp against the
\* configured public key
SignatureVerifies ==
    verifyKey(request.body, SignatureHeader, TimestampHeader, env.DISCORD_PUBLIC_KEY)

VerifiedPost == pc # "idle" /\ request.method = "POST" /\ SignatureVerifies

\* what the request's body parses to
Parsed == JSONparse(request.body)
ParsedType == Prop(Parsed.v, "type")
ParsedData == Prop(Parsed.v, "data")
ParsedName == IF Nullish(ParsedData) THEN Undef ELSE Prop(ParsedData, "name")

\* fetch ended with a Response of the given status
Responded(status) ==
    pc = "done" /\ result.kind = "response" /\ result.status = status

\* fetch ended with an HTTP 200 JSON reply of type 4 whose flags are 64
EphemeralReply ==
    /\ Responded(200)
    /\ LET r == JSONparse(result.body) IN
       /\ r.ok
       /\ StrictEqNum(Prop(r.v, "type"), 4)
       /\ ~Nullish(Prop(r.v, "data"))
       /\ StrictEqNum(Prop(Prop(r.v, "data"), "flags"), 64)

\* fetch ended with the HTTP 200 reply { type: 4, data: { content, flags: 64 } }
ContentReply(content) ==
    /\ Responded(200)
    /\ result.contentType = "application/json"
    /\ Text(result.body)
         = "{\"type\":4,\"data\":{\"content\":\"" \o content \o "\",\"flags\":64}}"

\* C1 as stated: every request whose signature header is missing or whose
\* signature does not verify ends with status 401, unparsed and unrouted.
C1_AsStated ==
    (pc = "done" /\ (SignatureHeader.t = "null" \/ ~SignatureVerifies))
        => /\ Responded(401)
           /\ ~Seen("JSON.parse")
           /\ invoked = <<>>

\* C1 amended: a request whose signature header is missing or whose signature
\* does not verify is never parsed, classified or routed and no handler is
\* invoked for it, and when it is a POST request it ends with status 401.
C1_UnauthenticatedRejected ==
    (pc # "idle" /\ (SignatureHeader.t = "null" \/ ~SignatureVerifies))
        => /\ ~Seen("JSON.parse") /\ ~Seen("classify") /\ ~Seen("route")
           /\ invoked = <<>>
           /\ pc \notin {"parse", "classify", "route", "await"}
           /\ (pc = "done" /\ request.method = "POST" => Responded(401))

\* a POST request carrying both headers, signed by a stranger, was rejected
\* by the verifier
C1_Witness ==
    /\ pc = "done" /\ request.method = "POST"
    /\ Truthy(SignatureHeader) /\ Truthy(TimestampHeader)
    /\ ~SignatureVerifies
    /\ Seen("verifyKey")
    /\ Responded(401)

\* C2 as stated: fetch ends every request with a Response, never with a
\* thrown fault or a value that is no Response.
C2_AlwaysOneResponse == pc = "done" => result.kind = "response"

\* C3 as stated: a verified POST request whose body is no JSON ends with an
\* HTTP 200 ephemeral reply (type 4, flags 64).
C3_MalformedIsUnsupported ==
    (pc = "done" /\ VerifiedPost /\ ~Parsed.ok) => EphemeralReply

\* the registered handler invoked for the request faulted
HandlerFaulted ==
    /\ invoked # <<>>
    /\ \E n \in RegisteredNames : InitialHandlers[n].f = Head(invoked)
    /\ Invoke(FnV(Head(invoked)), interaction, env).kind = "throw"

\* C4 as stated: when the handler invoked for a verified type=2 request
\* faults, fetch ends with a generic ephemeral Response (HTTP 200, type 4,
\* flags 64) and not with the fault.
C4_HandlerFaultCaught ==
    (pc = "done" /\ VerifiedPost /\ HandlerFaulted)
        => result.kind # "throw" /\ EphemeralReply

\* C5 as stated: for a verified type=2 request whose data.name is a string
\* that is no registered command name, no function is invoked as handler and
\* the reply is the ephemeral "Unknown command: <name>".
C5_UnknownCommand ==
    (/\ pc = "done" /\ VerifiedPost /\ Parsed.ok
     /\ StrictEqNum(ParsedType, 2)
     /\ ParsedName.t = "str" /\ ParsedName.s \notin RegisteredNames)
        => /\ invoked = <<>>
           /\ ContentReply("Unknown command: " \o ParsedName.s)

\* C6 as stated: for a verified type=2 request whose data.name is a registered
\* command name, that name's handler and no other is invoked, once, and fetch
\* ends with its result, an HTTP 200 reply of type 4.
C6_RegisteredCommand ==
    (/\ pc = "done" /\ VerifiedPost /\ Parsed.ok
     /\ StrictEqNum(ParsedType, 2)
     /\ ParsedName.t = "str" /\ ParsedName.s \in RegisteredNames)
        => /\ invoked = <<InitialHandlers[ParsedName.s].f>>
           /\ result = Invoke(InitialHandlers[ParsedName.s], Parsed.v, env)
           /\ Responded(200)
           /\ result.contentType = "application/json"
           /\ StrictEqNum(Prop(JSONparse(result.body).v, "type"), 4)

\* C7: a verified request whose body has type 1 ends with HTTP 200 and the
\* body {"type":1}, whatever else the body holds, and no handler is invoked
\* for it at any point.
C7_PingPong ==
    (VerifiedPost /\ Parsed.ok /\ StrictEqNum(ParsedType, 1))
        => /\ invoked = <<>>
           /\ ~Seen("route")
           /\ (pc = "done" =>
                 /\ Responded(200)
                 /\ result.contentType = "application/json"
                 /\ Text(result.body) = "{\"type\":1}")

\* a verified type 1 request that names a registered command was answered
C7_Witness ==
    /\ pc = "done" /\ VerifiedPost /\ Parsed.ok
    /\ StrictEqNum(ParsedType, 1)
    /\ StrictEqStr(ParsedName, "ping")
    /\ Text(result.body) = "{\"type\":1}"

\* C8 as stated: a verified request whose type is neither 1 nor 2 (another
\* number, no number, or no type field) ends with the HTTP 200 reply
\* "Unsupported interaction type" (type 4, flags 64), no handler invoked.
C8_Unsupported ==
    (/\ pc = "done" /\ VerifiedPost /\ Parsed.ok
     /\ ~StrictEqNum(ParsedType, 1) /\ ~StrictEqNum(ParsedType, 2))
        => /\ invoked = <<>>
           /\ ContentReply("Unsupported interaction type")

\* C9: a request whose method is not POST has its body never read, the
\* verifier never called and no handler invoked, and ends with status 405.
C9_MethodNotAllowed ==
    (pc # "idle" /\ request.method # "POST")
        => /\ ~Seen("headers") /\ ~Seen("text") /\ ~Seen("verifyKey")
           /\ body = <<>>
           /\ invoked = <<>>
           /\ (pc = "done" => Responded(405))

\* a GET request that would pass verification and name a command got 405
C9_Witness ==
    /\ pc = "done" /\ request.method = "GET"
    /\ SignatureVerifies
    /\ Parsed.ok /\ StrictEqNum(ParsedType, 2) /\ StrictEqStr(ParsedName, "ping")
    /\ Responded(405)

\* C10 as stated: a POST request with a header absent ends with 401 "Missing
\* signature headers", body unread and verifier uncalled; one with both
\* headers present whose verification fails ends with 401 "Invalid signature".
C10_AsStated ==
    (pc = "done" /\ request.method = "POST")
        => /\ (SignatureHeader.t = "null" \/ TimestampHeader.t = "null")
                => /\ Responded(401)
                   /\ Text(result.body) = "Missing signature headers"
                   /\ ~Seen("text") /\ ~Seen("verifyKey")
           /\ (SignatureHeader.t # "null" /\ TimestampHeader.t # "null"
               /\ ~SignatureVerifies)
                => /\ Responded(401)
                   /\ Text(result.body) = "Invalid signature"

\* C10 amended: a POST request with a header absent or empty ends with 401
\* "Missing signature headers", body unread and verifier uncalled; one with
\* both headers present and not empty whose verification fails ends with 401
\* "Invalid signature".
C10_MissingOrInvalid ==
    (pc # "idle" /\ request.method = "POST")
        => /\ (~Truthy(SignatureHeader) \/ ~Truthy(TimestampHeader))
                => /\ ~Seen("text") /\ ~Seen("verifyKey")
                   /\ body = <<>>
                   /\ (pc = "done" =>
                         /\ Responded(401)
                         /\ Text(result.body) = "Missing signature headers")
           /\ (Truthy(SignatureHeader) /\ Truthy(TimestampHeader)
               /\ ~SignatureVerifies /\ pc = "done")
                => /\ Responded(401)
                   /\ Text(result.body) = "Invalid signature"

\* a POST request with its signature header present and empty was answered
\* "Missing signature headers"
C10_Witness ==
    /\ pc = "done" /\ request.method = "POST"
    /\ StrictEqStr(SignatureHeader, "")
    /\ Truthy(TimestampHeader)
    /\ Text(result.body) = "Missing signature headers"

\* C11: a request that was served before, replayed while another request is
\* in flight at any point, ends as it ended before: the same status, headers
\* and body (or the same fault).
C11_ReplayIdentical ==
    /\ (pc = "done" /\ memo # NoMemo /\ request = memo.request)
          => result = memo.result
    /\ (parked.pc = "done" /\ memo # NoMemo /\ parked.request = memo.request)
          => parked.result = memo.result

\* a login request was served, kept, and served again with the same reply
\* while another request was suspended in its handler
C11_Witness ==
    /\ pc = "done" /\ memo # NoMemo /\ request = memo.request
    /\ invoked = <<"handleLoginCommand">>
    /\ result.kind = "response"
    /\ parked.pc = "await"

\* C12: in every state, whatever requests ran and however they interleaved,
\* COMMAND_HANDLERS maps the five names ping, login, start-shift, end-shift
\* and shift-status to their initial handlers; the registry is the one thing
\* the invocations of fetch share.
C12_RegistryImmutable ==
    /\ DOMAIN COMMAND_HANDLERS =
          {"ping", "login", "start-shift", "end-shift", "shift-status"}
    /\ COMMAND_HANDLERS["ping"] = FnV("handlePingCommand")
    /\ COMMAND_HANDLERS["login"] = FnV("handleLoginCommand")
    /\ COMMAND_HANDLERS["start-shift"] = FnV("handleStartShiftCommand")
    /\ COMMAND_HANDLERS["end-shift"] = FnV("handleEndShiftCommand")
    /\ COMMAND_HANDLERS["shift-status"] = FnV("handleShiftStatusCommand")

\* two invocations that both went through a handler are in flight at once
C12_Witness ==
    /\ invoked # <<>> /\ parked.invoked # <<>>
    /\ pc = "done" /\ parked.pc = "await"
    /\ request # parked.request

\* the options of the request's command
ParsedOptions == IF Nullish(ParsedData) THEN Undef ELSE Prop(ParsedData, "options")

\* a verified type=2 request named login
LoginRequest ==
    /\ VerifiedPost /\ Parsed.ok
    /\ StrictEqNum(ParsedType, 2)
    /\ StrictEqStr(ParsedName, "login")

\* o is a list of option objects
IsOptionList(o) == o.t = "arr" /\ \A n \in 1..Len(o.a) : o.a[n].t = "obj"

IsAuthKey(opt) == StrictEqStr(Prop(opt, "name"), "auth_key")
HasAuthKey(o) == \E n \in 1..Len(o.a) : IsAuthKey(o.a[n])
\* the first option of o named auth_key
FirstAuthKey(o) ==
    o.a[CHOOSE n \in 1..Len(o.a) :
            IsAuthKey(o.a[n]) /\ \A k \in 1..(n - 1) : ~IsAuthKey(o.a[k])]

\* a value that is not the empty string, 0, false, null or missing
NonEmpty(v) ==
    /\ v.t \notin {"undef", "null"}
    /\ v.t = "str" => v.s # ""
    /\ v.t = "num" => v.n # 0
    /\ v.t = "bool" => v.b

\* fetch ended with the HTTP 200 ephemeral embed "Feature in Development"
\* whose description names the command
PlaceholderReply(name) ==
    /\ Responded(200)
    /\ result.contentType = "application/json"
    /\ LET r == JSONparse(result.body)
           data == Prop(r.v, "data")
           embeds == Prop(data, "embeds")
       IN /\ r.ok
          /\ StrictEqNum(Prop(r.v, "type"), 4)
          /\ StrictEqNum(Prop(data, "flags"), 64)
          /\ embeds.t = "arr" /\ Len(embeds.a) = 1
          /\ StrictEqStr(Prop(embeds.a[1], "title"), "Feature in Development")
          /\ StrictEqStr(Prop(embeds.a[1], "description"),
                "The '" \o name \o "' command is available in the traditional bot deployment. Full Cloudflare Workers implementation coming soon!")
          /\ StrictEqStr(Prop(Prop(embeds.a[1], "footer"), "text"),
                "Use the traditional bot (bot.py) for full functionality")

\* C13 as stated: a verified login request whose options are absent, empty or
\* without an auth_key option is answered "Auth key is required"; one whose
\* options hold an auth_key option with a non-empty value is answered with the
\* ephemeral "Feature in Development" embed that mentions login.
C13_AsStated ==
    (pc = "done" /\ LoginRequest /\ (Nullish(ParsedOptions) \/ IsOptionList(ParsedOptions)))
        => /\ (Nullish(ParsedOptions) \/ ~HasAuthKey(ParsedOptions))
                => ContentReply("Auth key is required")
           /\ (~Nullish(ParsedOptions)
               /\ \E n \in 1..Len(ParsedOptions.a) :
                     /\ IsAuthKey(ParsedOptions.a[n])
                     /\ NonEmpty(Prop(ParsedOptions.a[n], "value")))
                => PlaceholderReply("login")

\* C13 amended: a verified login request whose options are absent, empty or
\* without an auth_key option is answered "Auth key is required"; one whose
\* first auth_key option has a non-empty value is answered with the ephemeral
\* "Feature in Development" embed that mentions login.
C13_LoginScenarios ==
    (pc = "done" /\ LoginRequest /\ (Nullish(ParsedOptions) \/ IsOptionList(ParsedOptions)))
        => /\ (Nullish(ParsedOptions) \/ ~HasAuthKey(ParsedOptions))
                => ContentReply("Auth key is required")
           /\ (~Nullish(ParsedOptions) /\ HasAuthKey(ParsedOptions)
               /\ NonEmpty(Prop(FirstAuthKey(ParsedOptions), "value")))
                => PlaceholderReply("login")

\* the login request with options [{name: auth_key, value: abc123}] got the
\* placeholder
C13_Witness ==
    /\ pc = "done" /\ LoginRequest
    /\ ParsedOptions = ArrV(<<Option("auth_key", StrV("abc123"))>>)
    /\ PlaceholderReply("login")

\* fetch ended with the HTTP 200 Pong embed of the ping command, which is
\* not ephemeral
PongReply ==
    /\ Responded(200)
    /\ result.contentType = "application/json"
    /\ LET r == JSONparse(result.body)
           data == Prop(r.v, "data")
           embeds == Prop(data, "embeds")
       IN /\ r.ok
          /\ StrictEqNum(Prop(r.v, "type"), 4)
          /\ Prop(data, "flags") = Undef
          /\ embeds.t = "arr" /\ Len(embeds.a) = 1
          /\ StrictEqStr(Prop(embeds.a[1], "title"), "U+1F3D3 Pong!")
          /\ StrictEqStr(Prop(embeds.a[1], "description"),
                         "Bot is running on Cloudflare Workers!")

\* a handler of the registry was invoked and fetch ended with its Response
RegisteredHandlerReplied ==
    /\ pc = "done" /\ VerifiedPost
    /\ invoked # <<>>
    /\ Head(invoked) \in {"handlePingCommand", "handleLoginCommand",
                          "handleStartShiftCommand", "handleEndShiftCommand",
                          "handleShiftStatusCommand"}
    /\ result.kind = "response"

\* the command each handler is registered under
CommandOf(h) ==
    CASE h = "handlePingCommand" -> "ping"
      [] h = "handleLoginCommand" -> "login"
      [] h = "handleStartShiftCommand" -> "start-shift"
      [] h = "handleEndShiftCommand" -> "end-shift"
      [] h = "handleShiftStatusCommand" -> "shift-status"

\* C14 as stated: every Response of a registered handler (ping, login,
\* start-shift, end-shift, shift-status) is either the ephemeral validation
\* error of a missing required argument or the placeholder that names the
\* handler's own command.
C14_AsStated ==
    RegisteredHandlerReplied
        => \/ ContentReply("Auth key is required")
           \/ PlaceholderReply(CommandOf(Head(invoked)))

\* C14 amended: the ping handler returns the Pong embed; the login handler
\* returns the ephemeral validation error "Auth key is required" or the
\* placeholder naming login; the start-shift, end-shift and shift-status
\* handlers return the placeholder naming their own command and nothing else.
C14_HandlerReplies ==
    RegisteredHandlerReplied
        => CASE Head(invoked) = "handlePingCommand" -> PongReply
             [] Head(invoked) = "handleLoginCommand" ->
                    \/ ContentReply("Auth key is required")
                    \/ PlaceholderReply("login")
             [] Head(invoked) = "handleStartShiftCommand" -> PlaceholderReply("start-shift")
             [] Head(invoked) = "handleEndShiftCommand" -> PlaceholderReply("end-shift")
             [] Head(invoked) = "handleShiftStatusCommand" -> PlaceholderReply("shift-status")

\* the end-shift handler was invoked and its placeholder names end-shift
C14_Witness ==
    /\ RegisteredHandlerReplied
    /\ invoked = <<"handleEndShiftCommand">>
    /\ StrictEqStr(ParsedName, "end-shift")
    /\ PlaceholderReply("end-shift")

\* a verified type=2 request whose data.name is a string has been routed
RoutedByName ==
    /\ Seen("route") /\ VerifiedPost /\ Parsed.ok
    /\ StrictEqNum(ParsedType, 2)
    /\ ParsedName.t = "str"

\* C15 as stated: the lookup of a command name yields a handler if and only
\* if the name is, character for character, one of the five registered keys;
\* "Ping", "login " and "start" yield none.
C15_ExactMatch ==
    RoutedByName
        => /\ Truthy(Lookup(COMMAND_HANDLERS, ParsedName))
                <=> ParsedName.s \in {"ping", "login", "start-shift",
                                      "end-shift", "shift-status"}
           /\ ParsedName.s \in {"Ping", "login ", "start"}
                => ~Truthy(Lookup(COMMAND_HANDLERS, ParsedName))

\* the Response fetch ended with is valid per the wire schema: HTTP 200,
\* Content-Type application/json, body {type: 1} without data or
\* {type: 4, data} whose data has content or a non-empty embeds list
WireValidReply ==
    /\ Responded(200)
    /\ result.contentType = "application/json"
    /\ LET r == JSONparse(result.body)
           data == Prop(r.v, "data")
       IN /\ r.ok /\ r.v.t = "obj"
          /\ \/ StrictEqNum(Prop(r.v, "type"), 1) /\ data = Undef
             \/ /\ StrictEqNum(Prop(r.v, "type"), 4)
                /\ data.t = "obj"
                /\ \/ Prop(data, "content").t = "str"
                   \/ /\ Prop(data, "embeds").t = "arr"
                      /\ Len(Prop(data, "embeds").a) > 0

\* the request ran into one of the errors that are answered to the user: an
\* unsupported interaction type, an unknown command, a missing auth key or a
\* fault of the handler
ErrorCase ==
    /\ Parsed.ok
    /\ \/ ~StrictEqNum(ParsedType, 1) /\ ~StrictEqNum(ParsedType, 2)
       \/ StrictEqNum(ParsedType, 2) /\ invoked = <<>>
       \/ HandlerFaulted
       \/ /\ invoked = <<"handleLoginCommand">>
          /\ AuthKeyOf(interaction).ok /\ ~Truthy(AuthKeyOf(interaction).v)

\* C16 as stated: after successful verification every Response of fetch is
\* valid per the wire schema, and every error (unknown command, unsupported
\* interaction type, missing auth key, handler error) is answered with a
\* type 4 message with flags 64.
C16_WireValid ==
    (pc = "done" /\ VerifiedPost)
        => /\ result.kind = "response" => WireValidReply
           /\ ErrorCase => EphemeralReply

\* the steps of fetch in the order of the code
Pipeline ==
    <<"method", "headers", "text", "verifyKey", "JSON.parse", "classify", "route">>

\* s is the beginning of t
IsPrefix(s, t) == Len(s) =< Len(t) /\ \A n \in 1..Len(s) : s[n] = t[n]

\* C17: the steps taken for a request are a beginning of method check,
\* header check, reading the body, verification, parsing, classification,
\* routing, so each happens at most once and in that order; the body is
\* parsed only after the verifier returned true; and the verifier is given
\* the body text as received, with the request's signature and timestamp
\* headers.
C17_PipelineOrder ==
    /\ IsPrefix(log, Pipeline \o <<"settle">>)
    /\ Seen("JSON.parse") => Seen("verifyKey") /\ isValidRequest
    /\ (Seen("text") /\ pc # "idle") => body = request.body
    /\ (Seen("verifyKey") /\ pc # "idle")
            => /\ signature = SignatureHeader /\ timestamp = TimestampHeader
               /\ isValidRequest = (Ed25519Verify(TimestampHeader.s \o Text(request.body),
                                                  SignatureHeader.s,
                                                  env.DISCORD_PUBLIC_KEY))

\* a verified body with white space, which differs from its re-serialised
\* form, went through all seven steps
C17_Witness ==
    /\ pc = "done" /\ VerifiedPost
    /\ Parsed.ok /\ Stringify(Parsed.v) # request.body
    /\ log = Pipeline

\* the handler invoked for the request is one of the four async functions
AsyncHandlerInvoked ==
    /\ invoked # <<>>
    /\ Head(invoked) \in {"handleLoginCommand", "handleStartShiftCommand",
                          "handleEndShiftCommand", "handleShiftStatusCommand"}

\* C18: for a type=2 request routed to an asynchronous handler, fetch has no
\* result while the handler's promise is pending, and the result it ends with
\* comes after the promise has settled and is the handler's whole result.
C18_Awaited ==
    /\ pc = "await" => result = NoResult /\ AsyncHandlerInvoked
    /\ (AsyncHandlerInvoked /\ pc \notin {"idle", "done"}) => result = NoResult
    /\ (AsyncHandlerInvoked /\ pc = "done")
            => /\ Seen("settle")
               /\ result = pending
               /\ result = Invoke(FnV(Head(invoked)), interaction, env)

\* the start-shift handler's promise settled and fetch ended with its placeholder
C18_Witness ==
    /\ pc = "done" /\ VerifiedPost
    /\ invoked = <<"handleStartShiftCommand">>
    /\ Seen("settle")
    /\ PlaceholderReply("start-shift")

\* v is the value of a header that is present and not empty
NonEmptyHeader(v) == v.t = "str" /\ v.s # ""

\* C19: whenever fetch has returned status 200 or has invoked a handler, the
\* request was a POST with both signature headers non-empty and the verifier
\* returned true for its body, signature and timestamp; and a POST with an
\* empty signature or timestamp header ends as one without that header does,
\* with 401 "Missing signature headers".
C19_AuthenticationImplied ==
    /\ (pc # "idle" /\ (invoked # <<>> \/ (result.kind = "response" /\ result.status = 200)))
            => /\ request.method = "POST"
               /\ NonEmptyHeader(SignatureHeader) /\ NonEmptyHeader(TimestampHeader)
               /\ Seen("verifyKey") /\ isValidRequest
               /\ SignatureVerifies
    /\ (pc = "done" /\ request.method = "POST"
        /\ (~NonEmptyHeader(SignatureHeader) \/ ~NonEmptyHeader(TimestampHeader)))
            => /\ result = Response(<<Chars("Missing signature headers")>>, 401, TextPlain)
               /\ ~Seen("text") /\ ~Seen("verifyKey")

\* a POST whose signature header is the empty string was answered 401
\* without its body being read
C19_Witness ==
    /\ pc = "done" /\ request.method = "POST"
    /\ SignatureHeader = StrV("") /\ NonEmptyHeader(TimestampHeader)
    /\ Responded(401) /\ log = <<"method", "headers">>

\* C20: for a verified login request with a list of options, the first
\* option named auth_key decides: when there is none, or its value is the
\* empty string, 0, false, null or missing, the reply is "Auth key is
\* required"; otherwise it is the login placeholder. Later auth_key options
\* and options with other names change nothing.
C20_FirstAuthKeyDecides ==
    (pc = "done" /\ LoginRequest /\ IsOptionList(ParsedOptions))
        => IF /\ HasAuthKey(ParsedOptions)
              /\ NonEmpty(Prop(FirstAuthKey(ParsedOptions), "value"))
           THEN PlaceholderReply("login")
           ELSE /\ ContentReply("Auth key is required")
                /\ result = jsonResponse(EphemeralMessage("Auth key is required"))

\* options [{auth_key: false}, {auth_key: "abc123"}] were answered "Auth key
\* is required"
C20_Witness ==
    /\ pc = "done" /\ LoginRequest
    /\ ParsedOptions = ArrV(<<Option("auth_key", BoolV(FALSE)),
                              Option("auth_key", StrV("abc123"))>>)
    /\ ContentReply("Auth key is required")

====
